---- MODULE Spec2Model ----
(***************************************************************************)
(* A model of smug-broker: the pattern routing broker (smug/pr.go), the    *)
(* Slack broker with its user cache and reference translation              *)
(* (smug/slack.go) and the event envelope (smug/config.go).                *)
(*                                                                         *)
(* Go strings are modelled as sequences of one-character strings, so that  *)
(* prefix tests, case folding, regular expressions and replacements are    *)
(* computed character by character as the code computes them.              *)
(***************************************************************************)
EXTENDS Integers, Sequences, FiniteSets, TLC

\* ------------------------------------------------------------------------
\* Bounds of the model
\* ------------------------------------------------------------------------

\* events an adapter other than the router broadcasts in one behaviour
MaxInbound == 1
\* goroutines started by Pattern.Handle in one behaviour
MaxTasks == 2
\* heartbeat sweeps in one behaviour
MaxBeats == 1
\* help commands the adapter broadcasts in the queue-filling specification
MaxHelp == 103
\* ChunkSplit: the longest body, in characters, the greatest limit, and the
\* most spare capacity append leaves behind the runes
MaxBody == 3
MaxLimit == 4
MaxSpare == 1

\* ------------------------------------------------------------------------
\* Strings
\* ------------------------------------------------------------------------

UpperCh == <<"A","B","C","D","E","F","G","H","I","J","K","L","M",
             "N","O","P","Q","R","S","T","U","V","W","X","Y","Z">>
LowerCh == <<"a","b","c","d","e","f","g","h","i","j","k","l","m",
             "n","o","p","q","r","s","t","u","v","w","x","y","z">>
Digits == {"0","1","2","3","4","5","6","7","8","9"}
Range(f) == {f[x] : x \in DOMAIN f}

ToLowerCh(c) ==
    IF c \in Range(UpperCh)
    THEN LowerCh[CHOOSE i \in 1..26 : UpperCh[i] = c]
    ELSE c
ToUpperCh(c) ==
    IF c \in Range(LowerCh)
    THEN UpperCh[CHOOSE i \in 1..26 : LowerCh[i] = c]
    ELSE c
\* strings.ToLower, strings.ToUpper
ToLower(s) == [i \in 1..Len(s) |-> ToLowerCh(s[i])]
ToUpper(s) == [i \in 1..Len(s) |-> ToUpperCh(s[i])]
\* strings.HasPrefix(s, prefix)
HasPrefix(s, prefix) ==
    Len(s) >= Len(prefix) /\ SubSeq(s, 1, Len(prefix)) = prefix
\* the regexp class \w
IsWordCh(c) == c \in Range(UpperCh) \cup Range(LowerCh) \cup Digits \cup {"_"}
\* whether sub occurs in s at position i
OccursAt(s, sub, i) ==
    i + Len(sub) - 1 <= Len(s) /\ SubSeq(s, i, i + Len(sub) - 1) = sub

RECURSIVE ReplaceFrom(_, _, _, _)
ReplaceFrom(s, old, new, i) ==
    IF i > Len(s) THEN <<>>
    ELSE IF OccursAt(s, old, i)
         THEN new \o ReplaceFrom(s, old, new, i + Len(old))
         ELSE <<s[i]>> \o ReplaceFrom(s, old, new, i + 1)
\* strings.ReplaceAll(s, old, new), old not empty: the non-overlapping
\* occurrences of old, left to right
ReplaceAll(s, old, new) == ReplaceFrom(s, old, new, 1)

RECURSIVE SplitFrom(_, _, _)
SplitFrom(s, sep, i) ==
    IF \E j \in i..Len(s) : s[j] = sep
    THEN LET j == CHOOSE j \in i..Len(s) :
                      s[j] = sep /\ \A k \in i..(j - 1) : s[k] # sep
         IN  <<SubSeq(s, i, j - 1)>> \o SplitFrom(s, sep, j + 1)
    ELSE <<SubSeq(s, i, Len(s))>>
\* strings.Split(s, sep) for a one-character separator
Split(s, sep) == SplitFrom(s, sep, 1)

RECURSIVE JoinFrom(_, _, _)
JoinFrom(parts, sep, i) ==
    IF i > Len(parts) THEN <<>>
    ELSE IF i = Len(parts) THEN parts[i]
    ELSE parts[i] \o sep \o JoinFrom(parts, sep, i + 1)
\* strings.Join(parts, sep)
Join(parts, sep) == JoinFrom(parts, sep, 1)

\* a map[string]string: a function on its key set
EmptyMap == <<>>
\* the map a after "for k, v := range b { a[k] = v }"
Overlay(a, b) ==
    [k \in DOMAIN a \cup DOMAIN b |-> IF k \in DOMAIN b THEN b[k] ELSE a[k]]

\* ------------------------------------------------------------------------
\* Brokers and events
\* ------------------------------------------------------------------------

\* a nil Broker reference
NoBroker == "nil"
\* PatternRoutingBroker.Name()
PRBName == "pattern-router"
\* the Slack broker of this model, and a broker of another network
SlackName == "slack"
OtherName == "other"

\* the Event envelope; a nil ContentBlocks slice is the empty sequence
Event(cmd, origin, rb, rt, actor, text, blocks) ==
    [IsCmdOutput |-> cmd, Origin |-> origin, ReplyBroker |-> rb,
     ReplyTarget |-> rt, Actor |-> actor, Text |-> text,
     ContentBlocks |-> blocks]
EventBlock(title, text, img) == [Title |-> title, Text |-> text, ImgUrl |-> img]

\* ------------------------------------------------------------------------
\* State
\* ------------------------------------------------------------------------

VARIABLES
    \* the dispatcher: the names of the registered brokers, in the order
    \* Broadcast calls them
    brokers,
    \* PatternRoutingBroker: patterns, feedback, msgsRcvd, msgsActn
    patterns, feedback, msgsRcvd, msgsActn,
    \* the PatternConfig list the patterns were built from
    configs,
    \* the threads that call Dispatcher.Broadcast: where each is
    th,
    \* the goroutines started by Pattern.Handle, in the order started
    subs,
    \* history: events pushed onto feedback, events Activate passed to
    \* Broadcast, the (rcvd, actn) pairs the heartbeats logged, the number of
    \* inbound events the adapters have taken
    pushedLog, bcastLog, hbLog, nIn,
    \* history: for each event pushed onto feedback, the event whose handling
    \* produced it
    trigLog,
    \* history: the number of msgsRcvd++ and of msgsActn++ executed
    incs

prVars == <<brokers, patterns, feedback, msgsRcvd, msgsActn, configs, th, subs,
            pushedLog, bcastLog, hbLog, nIn, trigLog, incs>>

VARIABLES
    \* SlackBroker: usercache (users and nicks), chanid, rtm (whether it is
    \* set), mybotid, msgsRcvd, msgsSent
    cache, chanid, rtm, mybotid, slRcvd, slSent,
    \* history: the messages given to PostMessage, and the last HandleEvent
    \* call of the Slack broker: its event and what it changed
    posted, slLast

slVars == <<cache, chanid, rtm, mybotid, slRcvd, slSent, posted, slLast>>

VARIABLES
    \* history: the users written to the cache whose id and lower-cased nick
    \* no later write has touched, and the last call made on the Slack
    \* broker's cache or translation functions, with what it returned
    fresh, last

trVars == <<fresh, last>>

\* ------------------------------------------------------------------------
\* Patterns (smug/pr.go)
\* ------------------------------------------------------------------------

\* The regular expressions of the model have the shape  lit(.)(.)...  : a
\* literal followed by one-character capture groups, each named or not
\* (name ""). A source text that regexp.Compile rejects has valid = FALSE.
Regex(valid, lit, groups) == [valid |-> valid, lit |-> lit, groups |-> groups]

\* regexp.Compile
Compile(reg) == [err |-> ~reg.valid, re |-> reg]

ReMatchAt(re, text, i) ==
    /\ i + Len(re.lit) + Len(re.groups) - 1 <= Len(text)
    /\ SubSeq(text, i, i + Len(re.lit) - 1) = re.lit

\* Regexp.FindStringSubmatch: the leftmost match and its groups, or nothing
FindStringSubmatch(re, text) ==
    IF \E i \in 1..(Len(text) + 1) : ReMatchAt(re, text, i)
    THEN LET i == CHOOSE i \in 1..(Len(text) + 1) :
                      /\ ReMatchAt(re, text, i)
                      /\ \A j \in 1..(i - 1) : ~ReMatchAt(re, text, j)
             n == Len(re.lit)
         IN  <<SubSeq(text, i, i + n + Len(re.groups) - 1)>>
             \o [g \in 1..Len(re.groups) |-> <<text[i + n + g - 1]>>]
    ELSE <<>>

\* Regexp.SubexpNames: index 1 is the whole match
SubexpNames(re) == <<"">> \o re.groups

HelperPattern == [kind |-> "helper"]

\* NewExtendedPattern: the Pattern literal sets name, re, url, headers,
\* method and help; vars keeps its zero value, the nil map
NewExtendedPattern(name, reg, url, headers, vars, method, help) ==
    LET c == Compile(reg)
        meth == ToUpper(method)
    IN  IF Len(url) < 10 /\ ~HasPrefix(<<"h","t","t","p">>, ToLower(url))
        THEN [err |-> TRUE]
        ELSE IF c.err THEN [err |-> TRUE]
        ELSE IF ~(meth = <<"G","E","T">> \/ meth = <<"P","O","S","T">>)
        THEN [err |-> TRUE]
        ELSE [err |-> FALSE,
              p |-> [kind |-> "pattern", name |-> name, re |-> c.re,
                     url |-> url, headers |-> headers, vars |-> EmptyMap,
                     method |-> method, help |-> help]]

\* MetaPattern.HelpText
PatternHelpText(ptn) == IF ptn.kind = "helper" THEN <<>> ELSE ptn.help

\* Pattern.ExtractMatches
ExtractMatches(p, text) ==
    LET matches == FindStringSubmatch(p.re, text)
        names == SubexpNames(p.re)
        idx == {i \in 2..Len(names) : names[i] # ""}
    IN  [matches |-> matches,
         named |-> IF Len(matches) = 0 THEN EmptyMap
                   ELSE [k \in {names[i] : i \in idx} |->
                           matches[CHOOSE i \in idx :
                                     /\ names[i] = k
                                     /\ \A j \in idx : names[j] = k => j <= i]]]

\* Pattern.Submit, lines 167-176: the payload
SubmitPayload(p, actor, text, named) ==
    Overlay(Overlay([k \in {"actor", "text"} |->
                       IF k = "actor" THEN actor ELSE text],
                    named),
            p.vars)

\* an http.Response as Submit reads it: the transport error, Status, and the
\* body: its length, whether json.Unmarshal accepts it, and what it holds
Response(err, status, len, json, text, blocks) ==
    [err |-> err, Status |-> status,
     body |-> [len |-> len, json |-> json, Text |-> text, Blocks |-> blocks]]
NoResponse == Response(FALSE, <<>>, 0, FALSE, <<>>, <<>>)

NoEvent == Event(FALSE, NoBroker, NoBroker, "", <<>>, <<>>, <<>>)

\* a variant of SubmitReply that appends the blocks last to first
SubmitReplyReversesBlocks(originEvt, resp) ==
    IF resp.err THEN [push |-> FALSE, ev |-> NoEvent]
    ELSE IF ~HasPrefix(resp.Status, <<"2","0","0">>)
    THEN [push |-> FALSE, ev |-> NoEvent]
    ELSE IF resp.body.len > 0
    THEN IF ~resp.body.json THEN [push |-> FALSE, ev |-> NoEvent]
         ELSE [push |-> TRUE,
               ev |-> Event(TRUE, NoBroker, originEvt.ReplyBroker,
                            originEvt.ReplyTarget, <<>>, resp.body.Text,
                            [i \in 1..Len(resp.body.Blocks) |->
                               LET blk == resp.body.Blocks[
                                              Len(resp.body.Blocks) + 1 - i]
                               IN EventBlock(blk.Title, blk.Text, blk.Img)])]
    ELSE [push |-> FALSE, ev |-> NoEvent]

\* a variant of SubmitReply without the error and status tests of lines
\* 188-203
SubmitReplyIgnoresStatus(originEvt, resp) ==
    IF resp.body.len > 0 /\ resp.body.json
    THEN [push |-> TRUE,
          ev |-> Event(TRUE, NoBroker, originEvt.ReplyBroker,
                       originEvt.ReplyTarget, <<>>, resp.body.Text,
                       [i \in 1..Len(resp.body.Blocks) |->
                          LET blk == resp.body.Blocks[i]
                          IN EventBlock(blk.Title, blk.Text, blk.Img)])]
    ELSE [push |-> FALSE, ev |-> NoEvent]

\* a variant of SubmitReply that answers a body that does not parse with an
\* event that says so
SubmitReplySurfacesError(originEvt, resp) ==
    IF resp.err THEN [push |-> FALSE, ev |-> NoEvent]
    ELSE IF ~HasPrefix(resp.Status, <<"2","0","0">>)
    THEN [push |-> FALSE, ev |-> NoEvent]
    ELSE IF resp.body.len > 0
    THEN [push |-> TRUE,
          ev |-> Event(TRUE, NoBroker, originEvt.ReplyBroker,
                       originEvt.ReplyTarget, <<>>,
                       IF resp.body.json THEN resp.body.Text
                       ELSE <<"E","R","R">>,
                       [i \in 1..Len(resp.body.Blocks) |->
                          LET blk == resp.body.Blocks[i]
                          IN EventBlock(blk.Title, blk.Text, blk.Img)])]
    ELSE [push |-> FALSE, ev |-> NoEvent]

\* a variant of SubmitReply that leaves ReplyTarget empty
SubmitReplyDropsTarget(originEvt, resp) ==
    IF resp.err THEN [push |-> FALSE, ev |-> NoEvent]
    ELSE IF ~HasPrefix(resp.Status, <<"2","0","0">>)
    THEN [push |-> FALSE, ev |-> NoEvent]
    ELSE IF resp.body.len > 0
    THEN IF ~resp.body.json THEN [push |-> FALSE, ev |-> NoEvent]
         ELSE [push |-> TRUE,
               ev |-> Event(TRUE, NoBroker, originEvt.ReplyBroker, "", <<>>,
                            resp.body.Text,
                            [i \in 1..Len(resp.body.Blocks) |->
                               LET blk == resp.body.Blocks[i]
                               IN EventBlock(blk.Title, blk.Text, blk.Img)])]
    ELSE [push |-> FALSE, ev |-> NoEvent]

\* Pattern.Submit, lines 188-229: what the reply makes of the call: whether
\* an event goes to feedback, and which
SubmitReply(originEvt, resp) ==
    IF resp.err THEN [push |-> FALSE, ev |-> NoEvent]
    ELSE IF ~HasPrefix(resp.Status, <<"2","0","0">>)
    THEN [push |-> FALSE, ev |-> NoEvent]
    ELSE IF resp.body.len > 0
    THEN IF ~resp.body.json THEN [push |-> FALSE, ev |-> NoEvent]
         ELSE [push |-> TRUE,
               ev |-> Event(TRUE, NoBroker, originEvt.ReplyBroker,
                            originEvt.ReplyTarget, <<>>, resp.body.Text,
                            [i \in 1..Len(resp.body.Blocks) |->
                               LET blk == resp.body.Blocks[i]
                               IN EventBlock(blk.Title, blk.Text, blk.Img)])]
    ELSE [push |-> FALSE, ev |-> NoEvent]

\* PatternRoutingBroker.HelpText
HelpText(ptns) ==
    Join(SelectSeq([i \in 1..Len(ptns) |-> PatternHelpText(ptns[i])],
                   LAMBDA ht : ht # <<>>),
         <<"\n">>)

\* the feedback channel's capacity, make(chan *Event, 100)
FeedbackCap == 100

\* ------------------------------------------------------------------------
\* The Slack user cache (smug/slack.go)
\* ------------------------------------------------------------------------

SlackUser(id, nick, avatar) == [Id |-> id, Nick |-> nick, Avatar |-> avatar]

\* m after m[k] = v
Put(m, k, v) == [x \in DOMAIN m \cup {k} |-> IF x = k THEN v ELSE m[x]]

\* SlackUserCache.Setup: a cache is [users, nicks]
EmptyCache == [users |-> EmptyMap, nicks |-> EmptyMap]

\* a variant of CacheUser without the strings.ToLower of line 59
CacheUserKeepsCase(c, user) ==
    [users |-> Put(c.users, user.Id, user),
     nicks |-> Put(c.nicks, user.Nick, user)]

\* SlackUserCache.CacheUser
CacheUser(c, user) ==
    [users |-> Put(c.users, user.Id, user),
     nicks |-> Put(c.nicks, ToLower(user.Nick), user)]

\* SlackUserCache.UserFromAPI. api is what the Slack API answers GetUserInfo
\* with while the caller runs: the profiles by key; a key outside its domain
\* gets an error
UserFromAPI(c, api, ukey) ==
    IF ukey \notin DOMAIN api
    THEN [err |-> TRUE, c |-> c]
    ELSE LET suser == SlackUser(ukey, api[ukey].Name, api[ukey].Image72)
         IN  [err |-> FALSE, user |-> suser, c |-> CacheUser(c, suser)]

\* SlackUserCache.userInIdCache, userInNickCache
userInIdCache(c, ukey) == ukey \in DOMAIN c.users
userInNickCache(c, nick) == ToLower(nick) \in DOMAIN c.nicks

\* SlackUserCache.UserNick: the nick, the cache afterwards, and the keys
\* looked up remotely
UserNick(c, api, ukey, cacheOnly) ==
    IF userInIdCache(c, ukey)
    THEN [val |-> c.users[ukey].Nick, c |-> c, calls |-> <<>>]
    ELSE IF cacheOnly THEN [val |-> <<>>, c |-> c, calls |-> <<>>]
    ELSE LET r == UserFromAPI(c, api, ukey)
         IN  IF r.err THEN [val |-> <<>>, c |-> c, calls |-> <<ukey>>]
             ELSE [val |-> r.user.Nick, c |-> r.c, calls |-> <<ukey>>]

\* SlackUserCache.UserId
UserId(c, api, nick, cacheOnly) ==
    IF userInNickCache(c, nick)
    THEN [val |-> c.nicks[ToLower(nick)].Id, c |-> c, calls |-> <<>>]
    ELSE IF cacheOnly THEN [val |-> <<>>, c |-> c, calls |-> <<>>]
    ELSE LET r == UserFromAPI(c, api, nick)
         IN  IF r.err THEN [val |-> <<>>, c |-> c, calls |-> <<nick>>]
             ELSE [val |-> r.user.Id, c |-> r.c, calls |-> <<nick>>]

\* ------------------------------------------------------------------------
\* Reference translation (smug/slack.go)
\* ------------------------------------------------------------------------

\* A match as FindAllStringSubmatchIndex gives it: <<start, end, sub start,
\* sub end>>, byte offsets from 0, each end exclusive.
\* s[a:b], and whether Go evaluates it without a panic
Slice(s, a, b) == SubSeq(s, a + 1, b)
InRange(s, a, b) == 0 <= a /\ a <= b /\ b <= Len(s)

\* the character classes of the broker's expressions: \w, [\w|] and .
InClass(class, c) ==
    CASE class = "word" -> IsWordCh(c)
      [] class = "uid" -> IsWordCh(c) \/ c = "|"
      [] class = "dot" -> c # "\n"

\* the last position of the longest run of characters from position i
\* (counted from 1) that are in the class; i - 1 when there is none
RunEnd(s, i, class) ==
    CHOOSE j \in (i - 1)..Len(s) :
        /\ \A k \in i..j : InClass(class, s[k])
        /\ (j < Len(s) => ~InClass(class, s[j + 1]))

\* re_uids, <@(U[\w|]+)> : the match that starts at position i, or <<>>
UidMatchAt(s, i) ==
    LET r == RunEnd(s, i + 3, "uid")
    IN  IF /\ OccursAt(s, <<"<","@","U">>, i)
           /\ r >= i + 3 /\ r < Len(s) /\ s[r + 1] = ">"
        THEN <<i - 1, r + 1, i + 1, r>>
        ELSE <<>>

\* re_usernick, ^(\w+):
UserNickMatch(s) ==
    LET r == RunEnd(s, 1, "word")
    IN  IF r >= 1 /\ r < Len(s) /\ s[r + 1] = ":"
        THEN <<0, r + 1, 0, r>>
        ELSE <<>>

\* re_atusers, @(\w+)\b : the match that starts at position i, or <<>>
AtUserMatchAt(s, i) ==
    LET r == RunEnd(s, i + 1, "word")
    IN  IF i <= Len(s) /\ s[i] = "@" /\ r >= i + 1
        THEN <<i - 1, r, i, r>>
        ELSE <<>>

\* re_embeddedurls, <(http.+\|?.*)> : the match that starts at position i, or
\* <<>>. "." matches all but a line break and ".+" is greedy, so the match
\* runs to the last ">" of the line that leaves a character after "<http"
UrlMatchAt(s, i) ==
    LET eol == RunEnd(s, i + 5, "dot")
        ends == {j \in (i + 6)..eol : s[j] = ">"}
    IN  IF OccursAt(s, <<"<","h","t","t","p">>, i) /\ ends # {}
        THEN LET j == CHOOSE j \in ends : \A k \in ends : k <= j
             IN  <<i - 1, j, i, j - 1>>
        ELSE <<>>

\* FindAllStringSubmatchIndex(s, -1): the matches left to right, each search
\* resuming where the previous match ended (no match here is empty)
RECURSIVE FindAllFrom(_, _, _)
FindAllFrom(s, i, re) ==
    IF i > Len(s) THEN <<>>
    ELSE LET m == CASE re = "re_uids" -> UidMatchAt(s, i)
                    [] re = "re_atusers" -> AtUserMatchAt(s, i)
                    [] re = "re_embeddedurls" -> UrlMatchAt(s, i)
         IN  IF m = <<>> THEN FindAllFrom(s, i + 1, re)
             ELSE <<m>> \o FindAllFrom(s, m[2] + 1, re)

\* ConvertRefsToUsers, lines 193-209: the matches from the last to the first.
\* st is [uids, c, calls]
RECURSIVE RefsLookup(_, _, _, _, _, _)
RefsLookup(s, matches, i, st, api, cacheOnly) ==
    IF i < 1 THEN st
    ELSE LET m == matches[i]
             uid == Slice(s, m[3], m[4])
             key == IF \E k \in 1..Len(uid) : uid[k] = "|"
                    THEN Split(uid, "|")[1]
                    ELSE uid
             r == UserNick(st.c, api, key, cacheOnly)
         IN  RefsLookup(s, matches, i - 1,
                        [uids |-> IF uid \in DOMAIN st.uids THEN st.uids
                                  ELSE Put(st.uids, uid, r.val),
                         c |-> r.c,
                         calls |-> st.calls \o r.calls],
                        api, cacheOnly)

\* ConvertRefsToUsers, lines 211-217. Go ranges over the map in no defined
\* order; the replaced tokens <@uid> are distinct and none is part of
\* another, so the order matters only for a nick that holds such a token
RECURSIVE RefsReplace(_, _, _)
RefsReplace(s, uids, keys) ==
    IF keys = {} THEN s
    ELSE LET u == CHOOSE u \in keys : TRUE
         IN  RefsReplace(ReplaceAll(s, <<"<","@">> \o u \o <<">">>, uids[u]),
                         uids, keys \ {u})

\* SlackBroker.ConvertRefsToUsers: the text, the cache afterwards and the
\* remote lookups made
ConvertRefsToUsers(c, api, s, cacheOnly) ==
    LET matches == FindAllFrom(s, 1, "re_uids")
        st == RefsLookup(s, matches, Len(matches),
                         [uids |-> EmptyMap, c |-> c, calls |-> <<>>],
                         api, cacheOnly)
    IN  [s |-> RefsReplace(s, st.uids, DOMAIN st.uids),
         c |-> st.c, calls |-> st.calls]

\* ConvertUsersToRefs, either of its loops: the matches from the last to the
\* first, each read at its offsets in the text as replaced so far. st is
\* [s, c, calls, panic]. The first loop (re_usernick) replaces the nick by
\* @id when the id is longer than 4, the second (re_atusers) replaces @nick
\* by <@id> when the id is longer than 1
RECURSIVE UsersLoop(_, _, _, _, _, _)
UsersLoop(matches, i, st, api, cacheOnly, loop) ==
    IF i < 1 \/ st.panic THEN st
    ELSE LET m == matches[i]
         IN  IF ~InRange(st.s, m[3], m[4])
             THEN [st EXCEPT !.panic = TRUE]
             ELSE LET usernick == Slice(st.s, m[3], m[4])
                      r == UserId(st.c, api, usernick, cacheOnly)
                      uid == r.val
                      out == IF loop = 1
                             THEN IF Len(uid) > 4
                                  THEN ReplaceAll(st.s, usernick, <<"@">> \o uid)
                                  ELSE st.s
                             ELSE IF Len(uid) > 1
                                  THEN ReplaceAll(st.s, <<"@">> \o usernick,
                                                  <<"<","@">> \o uid \o <<">">>)
                                  ELSE st.s
                  IN  UsersLoop(matches, i - 1,
                                [s |-> out, c |-> r.c,
                                 calls |-> st.calls \o r.calls,
                                 panic |-> FALSE],
                                api, cacheOnly, loop)

\* SlackBroker.ConvertUsersToRefs: the text, the cache afterwards, the remote
\* lookups made, and whether a slice expression panicked
ConvertUsersToRefs(c, api, s, cacheOnly) ==
    LET m1 == UserNickMatch(s)
        ms1 == IF m1 = <<>> THEN <<>> ELSE <<m1>>
        st1 == UsersLoop(ms1, Len(ms1),
                         [s |-> s, c |-> c, calls |-> <<>>, panic |-> FALSE],
                         api, cacheOnly, 1)
        m2 == FindAllFrom(st1.s, 1, "re_atusers")
    IN  UsersLoop(m2, Len(m2), st1, api, cacheOnly, 2)

\* html.UnescapeString for the entities Slack escapes with: &lt; &gt; &amp;
\* (the semicolon is optional to Go)
RECURSIVE UnescapeFrom(_, _)
UnescapeFrom(s, i) ==
    IF i > Len(s) THEN <<>>
    ELSE LET ent(name, ch) ==
                 IF OccursAt(s, <<"&">> \o name, i)
                 THEN LET n == i + 1 + Len(name)
                      IN  <<ch>> \o UnescapeFrom(s,
                              IF n <= Len(s) /\ s[n] = ";" THEN n + 1 ELSE n)
                 ELSE <<>>
             lt == ent(<<"l","t">>, "<")
             gt == ent(<<"g","t">>, ">")
             amp == ent(<<"a","m","p">>, "&")
         IN  IF lt # <<>> THEN lt
             ELSE IF gt # <<>> THEN gt
             ELSE IF amp # <<>> THEN amp
             ELSE <<s[i]>> \o UnescapeFrom(s, i + 1)
UnescapeString(s) == UnescapeFrom(s, 1)

\* SimplifyParse, lines 364-385: the matches from the last to the first, each
\* read at its offsets in the text as replaced so far. st is [s, panic]
RECURSIVE SimplifyLoop(_, _, _)
SimplifyLoop(matches, i, st) ==
    IF i < 1 \/ st.panic THEN st
    ELSE LET m == matches[i]
         IN  IF ~(InRange(st.s, m[1], m[2]) /\ InRange(st.s, m[3], m[4]))
             THEN [st EXCEPT !.panic = TRUE]
             ELSE LET entire_url == Slice(st.s, m[1], m[2])
                      parts == Split(Slice(st.s, m[3], m[4]), "|")
                      udescr ==
                          IF Len(parts) > 2 \/ Len(parts) = 1 THEN parts[1]
                          ELSE IF Len(parts) = 2
                          THEN IF Len(parts[2]) > 0 THEN parts[2] ELSE parts[1]
                          ELSE entire_url
                  IN  SimplifyLoop(matches, i - 1,
                          [s |-> IF entire_url = <<>> THEN st.s
                                 ELSE ReplaceAll(st.s, entire_url, udescr),
                           panic |-> FALSE])

\* SlackBroker.SimplifyParse: the text, and whether a slice expression
\* panicked
SimplifyParse(s) ==
    LET matches == FindAllFrom(s, 1, "re_embeddedurls")
        st == SimplifyLoop(matches, Len(matches), [s |-> s, panic |-> FALSE])
    IN  [s |-> UnescapeString(st.s), panic |-> st.panic]

\* ------------------------------------------------------------------------
\* SlackBroker.HandleEvent (smug/slack.go)
\* ------------------------------------------------------------------------

\* HandleEvent, lines 318-344: the sections of the content blocks from the
\* i-th on
RECURSIVE BlockSlice(_, _)
BlockSlice(blocks, i) ==
    IF i > Len(blocks) THEN <<>>
    ELSE LET db == blocks[i]
         IN  (IF db.Title # "" THEN <<[header |-> db.Title]>> ELSE <<>>)
             \o (IF db.Text = "" /\ db.ImgUrl = "" THEN <<>>
                 ELSE <<[text |-> db.Text, img |-> db.ImgUrl]>>)
             \o BlockSlice(blocks, i + 1)

\* HandleEvent, lines 315-348: the message content
MsgContent(ev, txt) ==
    IF Len(ev.ContentBlocks) > 0
    THEN [blocks |-> BlockSlice(ev.ContentBlocks, 1)]
    ELSE [text |-> txt]

\* HandleEvent, lines 308-355, given what ConvertUsersToRefs returned
SlackPost(sl, ev, r) ==
    IF r.panic
    THEN [sl |-> [sl EXCEPT !.rcvd = @ + 1, !.cache = r.c], panic |-> TRUE,
          calls |-> r.calls]
    ELSE [sl |-> [sl EXCEPT
                    !.rcvd = @ + 1,
                    !.cache = r.c,
                    !.posted = Append(@,
                        [dest |-> IF ev.ReplyTarget = "" THEN sl.chanid
                                  ELSE ev.ReplyTarget,
                         content |-> MsgContent(ev, r.s),
                         username |-> ev.Actor])],
          panic |-> FALSE, calls |-> r.calls]

\* a variant of SlackBroker.HandleEvent without the ReplyBroker test of
\* lines 300-303
SlackHandleEventForAll(sl, api, ev) ==
    SlackPost(sl, ev, ConvertUsersToRefs(sl.cache, api, ev.Text, FALSE))

\* SlackBroker.HandleEvent on the broker state sl = [cache, chanid, rcvd,
\* posted]: the state afterwards, whether the call panicked, and the remote
\* lookups it made before it returned
SlackHandleEvent(sl, api, ev) ==
    IF ev.ReplyBroker # NoBroker /\ ev.ReplyBroker # SlackName
    THEN [sl |-> sl, panic |-> FALSE, calls |-> <<>>]
    ELSE SlackPost(sl, ev, ConvertUsersToRefs(sl.cache, api, ev.Text, FALSE))

\* ------------------------------------------------------------------------
\* Inputs
\* ------------------------------------------------------------------------

Url1 == <<"h","t","t","p",":","/","/","a",".","i","o","/","w">>
Url2 == <<"h","t","t","p",":","/","/","a",".","i","o","/","x">>
PatternConfig(name, help, regex, url, method, headers, vars) ==
    [Name |-> name, Help |-> help, RegEx |-> regex, Url |-> url,
     Method |-> method, Headers |-> headers, Vars |-> vars]
\* regex !w(?P<arg>.) with static vars arg and k
CfgWx == PatternConfig("wx", <<"w","x"," ","c","i","t","y">>,
                       Regex(TRUE, <<"!","w">>, <<"arg">>), Url1,
                       <<"P","O","S","T">>, [auth |-> <<"t","o","k">>],
                       [arg |-> <<"V">>, k |-> <<"v">>])
\* regex !(.) without static vars
CfgAny == PatternConfig("any", <<"!","c","m","d">>,
                        Regex(TRUE, <<"!">>, <<"">>), Url2,
                        <<"g","e","t">>, EmptyMap, EmptyMap)
PatternLists == {<<CfgWx>>, <<CfgWx, CfgAny>>, <<CfgAny, CfgWx>>}

TxtList == <<".",".","l","i","s","t">>
TxtWx == <<"!","w","x">>
TxtHi == <<"h","i">>
TxtAt == <<"@","a","m","y"," ","h","i">>
Al == <<"a","l">>
\* the events another network's broker broadcasts
InEvents ==
    {Event(FALSE, OtherName, NoBroker, "", Al, TxtList, <<>>),
     Event(FALSE, OtherName, OtherName, "u9", Al, TxtList, <<>>),
     Event(FALSE, OtherName, NoBroker, "", Al, TxtAt, <<>>),
     Event(FALSE, OtherName, NoBroker, "", Al, TxtWx, <<>>),
     Event(FALSE, OtherName, OtherName, "u9", Al, TxtWx, <<>>),
     Event(FALSE, OtherName, OtherName, "u9", Al, TxtHi, <<>>),
     Event(FALSE, OtherName, SlackName, "u7", Al, TxtHi, <<>>)}
\* the help command that follows n others in the queue-filling
\* specification: it asks for the reply in private every other time
HelpEvent(n) ==
    Event(FALSE, OtherName, IF n % 2 = 0 THEN NoBroker ELSE OtherName,
          IF n % 2 = 0 THEN "" ELSE "u9", Al, TxtList, <<>>)

St200 == <<"2","0","0"," ","O","K">>
St201 == <<"2","0","1"," ","C","r","e","a","t","e","d">>
St404 == <<"4","0","4"," ","N","o","t"," ","F","o","u","n","d">>
Blk(n) == [Text |-> "t" \o n, Img |-> "i" \o n, Title |-> "h" \o n]
\* what the external endpoint may answer
Responses ==
    {Response(TRUE, <<>>, 0, FALSE, <<>>, <<>>),
     Response(FALSE, St200, 0, FALSE, <<>>, <<>>),
     Response(FALSE, St200, 3, FALSE, <<>>, <<>>),
     Response(FALSE, St200, 9, TRUE, <<"o","k">>, <<>>),
     Response(FALSE, St200, 9, TRUE, TxtHi, <<Blk("1"), Blk("2")>>),
     Response(FALSE, St201, 9, TRUE, <<"o","k">>, <<>>),
     Response(FALSE, St404, 9, TRUE, <<"n","o">>, <<Blk("1")>>)}

\* what the Slack API may answer GetUserInfo with: nothing (an error for
\* every key), or the workspace's directory
Profile(name, img) == [Name |-> name, Image72 |-> img]
U1 == <<"U","1">>
U2 == <<"U","2","0","0","2">>
U3 == <<"U","3","0","0","3">>
\* the bot id sb.api.AuthTest answers with
MyBot == "B0"
Directory == (U1 :> Profile(<<"B","o","b">>, "b.png"))
             @@ (U2 :> Profile(<<"a","m","y">>, "a.png"))
             @@ (U3 :> Profile(<<"b","o","b">>, "c.png"))
ApiAnswers == {EmptyMap, Directory}

\* ------------------------------------------------------------------------
\* The pattern routing broker and the dispatcher: actions
\* ------------------------------------------------------------------------

\* the threads that call Broadcast: the Activate loop of another network's
\* broker, PatternRoutingBroker.Activate, and SlackBroker.Activate
Threads == {"ext", "drain", "slack"}

\* a thread outside Broadcast. Inside, ev is the event, todo the brokers
\* whose HandleEvent is still to be called, i the pattern that
\* PatternRoutingBroker.HandleEvent is at; tried and fired list the patterns
\* whose Handle was called and returned true in that call, and task is the
\* goroutine it started
Idle == [pc |-> "idle", ev |-> NoEvent, todo |-> <<>>, i |-> 0,
         tried |-> <<>>, fired |-> <<>>, task |-> 0]

\* PatternRoutingBroker.Setup, then AddPattern for each configured pattern
\* that NewExtendedPattern accepts
RECURSIVE AddPatterns(_, _, _)
AddPatterns(ptns, cfgs, i) ==
    IF i > Len(cfgs) THEN ptns
    ELSE LET c == cfgs[i]
             r == NewExtendedPattern(c.Name, c.RegEx, c.Url, c.Headers,
                                     c.Vars, c.Method, c.Help)
         IN  AddPatterns(IF r.err THEN ptns ELSE Append(ptns, r.p), cfgs, i + 1)
Setup(cfgs) == AddPatterns(<<HelperPattern>>, cfgs, 1)

\* the configuration a pattern was built from
ConfigOf(p) == CHOOSE c \in Range(configs) : c.Name = p.name

InitPR(cfgs, bs) ==
    /\ brokers = bs
    /\ configs = cfgs
    /\ patterns = Setup(cfgs)
    /\ feedback = <<>>
    /\ msgsRcvd = 0
    /\ msgsActn = 0
    /\ th = [t \in Threads |-> Idle]
    /\ subs = <<>>
    /\ pushedLog = <<>>
    /\ trigLog = <<>>
    /\ bcastLog = <<>>
    /\ hbLog = <<>>
    /\ incs = [rcvd |-> 0, actn |-> 0]
    /\ nIn = 0

InitSlack ==
    /\ fresh = {}
    /\ last = [kind |-> "none"]
    /\ cache = EmptyCache
    /\ chanid = "C1"
    /\ rtm = "rtm"
    /\ mybotid = MyBot
    /\ slRcvd = 0
    /\ slSent = 0
    /\ posted = <<>>
    /\ slLast = [n |-> 0, ev |-> NoEvent, posts |-> 0, rcvd |-> 0,
                 panic |-> FALSE, lookups |-> <<>>]

\* Dispatcher.Broadcast(ev) entered by thread t
EnterBroadcast(t, ev) ==
    th' = [th EXCEPT ![t] = [Idle EXCEPT !.pc = "bcast", !.ev = ev,
                                         !.todo = brokers]]

\* another network's broker broadcasts an event
ExtBroadcast(ev) ==
    /\ th["ext"].pc = "idle"
    /\ nIn' = nIn + 1
    /\ EnterBroadcast("ext", ev)
    /\ UNCHANGED <<brokers, patterns, feedback, msgsRcvd, msgsActn, configs,
                   subs, pushedLog, trigLog, bcastLog, hbLog, incs>>
    /\ UNCHANGED <<slVars, trVars>>

\* a variant of Activate that takes the newest event of feedback
ActivateTakesLast ==
    /\ th["drain"].pc = "idle"
    /\ feedback # <<>>
    /\ LET ev == [feedback[Len(feedback)] EXCEPT !.Origin = PRBName]
       IN  /\ feedback' = SubSeq(feedback, 1, Len(feedback) - 1)
           /\ bcastLog' = Append(bcastLog, ev)
           /\ EnterBroadcast("drain", ev)
    /\ UNCHANGED <<brokers, patterns, msgsRcvd, msgsActn, configs, subs,
                   pushedLog, trigLog, hbLog, incs, nIn>>
    /\ UNCHANGED <<slVars, trVars>>

\* PatternRoutingBroker.Activate, one turn of its loop up to the call of
\* Broadcast
Activate ==
    /\ th["drain"].pc = "idle"
    /\ feedback # <<>>
    /\ LET ev == [Head(feedback) EXCEPT !.Origin = PRBName]
       IN  /\ feedback' = Tail(feedback)
           /\ bcastLog' = Append(bcastLog, ev)
           /\ EnterBroadcast("drain", ev)
    /\ UNCHANGED <<brokers, patterns, msgsRcvd, msgsActn, configs, subs,
                   pushedLog, trigLog, hbLog, incs, nIn>>
    /\ UNCHANGED <<slVars, trVars>>

\* Broadcast calls the Slack broker's HandleEvent
DeliverSlack(t, api) ==
    /\ th[t].pc = "bcast"
    /\ th[t].todo # <<>> /\ Head(th[t].todo) = SlackName
    /\ \E r \in {SlackHandleEvent([cache |-> cache, chanid |-> chanid,
                                   rcvd |-> slRcvd, posted |-> posted],
                                  api, th[t].ev)} :
           /\ cache' = r.sl.cache
           /\ slRcvd' = r.sl.rcvd
           /\ posted' = r.sl.posted
           /\ slLast' = [n |-> slLast.n + 1, ev |-> th[t].ev,
                         posts |-> Len(r.sl.posted) - Len(posted),
                         rcvd |-> r.sl.rcvd - slRcvd, panic |-> r.panic,
                         lookups |-> r.calls]
    /\ th' = [th EXCEPT ![t].todo = Tail(@)]
    /\ UNCHANGED <<chanid, rtm, mybotid, slSent>>
    /\ UNCHANGED trVars
    /\ UNCHANGED <<brokers, patterns, feedback, msgsRcvd, msgsActn, configs,
                   subs, pushedLog, trigLog, bcastLog, hbLog, incs, nIn>>

\* a variant of HandleEvent without the msgsRcvd++ of line 285
HandleEventSkipsRcvd(t) ==
    /\ th[t].pc = "bcast"
    /\ th[t].todo # <<>> /\ Head(th[t].todo) = PRBName
    /\ th' = [th EXCEPT ![t].todo = Tail(@), ![t].pc = "try", ![t].i = 1,
                        ![t].tried = <<>>, ![t].fired = <<>>, ![t].task = 0]
    /\ UNCHANGED <<brokers, patterns, feedback, msgsRcvd, msgsActn, configs,
                   subs, pushedLog, trigLog, bcastLog, hbLog, incs, nIn>>
    /\ UNCHANGED <<slVars, trVars>>

\* Broadcast calls PatternRoutingBroker.HandleEvent, lines 284-286
HandleEvent(t) ==
    /\ th[t].pc = "bcast"
    /\ th[t].todo # <<>> /\ Head(th[t].todo) = PRBName
    /\ msgsRcvd' = msgsRcvd + 1
    /\ incs' = [incs EXCEPT !.rcvd = @ + 1]
    /\ th' = [th EXCEPT ![t].todo = Tail(@), ![t].pc = "try", ![t].i = 1,
                        ![t].tried = <<>>, ![t].fired = <<>>, ![t].task = 0]
    /\ UNCHANGED <<brokers, patterns, feedback, msgsActn, configs, subs,
                   pushedLog, trigLog, bcastLog, hbLog, nIn>>
    /\ UNCHANGED <<slVars, trVars>>

\* the goroutine "go p.Submit(ev, ev.Actor, ev.Text, named, feedback)" as
\* started; pushed lists the events it has put on feedback, calls counts its
\* HTTP requests and counted the increments of msgsActn for its match
NewTask(p, ev, named) ==
    [pc |-> "start", p |-> p, originEvt |-> ev, actor |-> ev.Actor,
     text |-> ev.Text, named |-> named, payload |-> EmptyMap,
     resp |-> NoResponse, out |-> NoEvent, pushed |-> <<>>, calls |-> 0,
     counted |-> 0]

\* a variant of Handle after which HandleEvent goes on to the next pattern:
\* the loop of lines 287-294 without its break
HandleNoBreak(t) ==
    /\ th[t].pc = "try"
    /\ th[t].i <= Len(patterns)
    /\ patterns[th[t].i].kind = "pattern"
    /\ LET i == th[t].i
           ev == th[t].ev
           x == ExtractMatches(patterns[i], ev.Text)
       IN  IF Len(x.matches) = 0
           THEN /\ th' = [th EXCEPT ![t].tried = Append(@, i), ![t].i = i + 1]
                /\ UNCHANGED subs
           ELSE /\ Len(subs) < MaxTasks
                /\ subs' = Append(subs, NewTask(patterns[i], ev, x.named))
                /\ th' = [th EXCEPT ![t].tried = Append(@, i),
                                    ![t].fired = Append(@, i),
                                    ![t].task = Len(subs) + 1,
                                    ![t].i = i + 1]
    /\ UNCHANGED <<brokers, patterns, feedback, msgsRcvd, msgsActn, configs,
                   pushedLog, trigLog, bcastLog, hbLog, incs, nIn>>
    /\ UNCHANGED <<slVars, trVars>>

\* HelperPattern.Handle, as HandleEvent calls it at lines 287-288. The send
\* on the feedback channel waits while the channel is full
HelperHandle(t) ==
    /\ th[t].pc = "try"
    /\ th[t].i <= Len(patterns)
    /\ patterns[th[t].i].kind = "helper"
    /\ LET i == th[t].i
           ev == th[t].ev
       IN  IF HasPrefix(ev.Text, TxtList)
           THEN LET out == Event(TRUE, NoBroker, ev.ReplyBroker, ev.ReplyTarget,
                                 <<>>, HelpText(patterns), <<>>)
                IN  /\ Len(feedback) < FeedbackCap
                    /\ feedback' = Append(feedback, out)
                    /\ pushedLog' = Append(pushedLog, out)
                    /\ trigLog' = Append(trigLog, ev)
                    /\ th' = [th EXCEPT ![t].tried = Append(@, i),
                                        ![t].fired = Append(@, i),
                                        ![t].pc = "actn"]
           ELSE /\ th' = [th EXCEPT ![t].tried = Append(@, i), ![t].i = i + 1]
                /\ UNCHANGED <<feedback, pushedLog, trigLog>>
    /\ UNCHANGED <<brokers, patterns, msgsRcvd, msgsActn, configs, subs,
                   bcastLog, hbLog, incs, nIn>>
    /\ UNCHANGED <<slVars, trVars>>

\* Pattern.Handle, as HandleEvent calls it at lines 287-288
Handle(t) ==
    /\ th[t].pc = "try"
    /\ th[t].i <= Len(patterns)
    /\ patterns[th[t].i].kind = "pattern"
    /\ LET i == th[t].i
           ev == th[t].ev
           x == ExtractMatches(patterns[i], ev.Text)
       IN  IF Len(x.matches) = 0
           THEN /\ th' = [th EXCEPT ![t].tried = Append(@, i), ![t].i = i + 1]
                /\ UNCHANGED subs
           ELSE /\ Len(subs) < MaxTasks
                /\ subs' = Append(subs, NewTask(patterns[i], ev, x.named))
                /\ th' = [th EXCEPT ![t].tried = Append(@, i),
                                    ![t].fired = Append(@, i),
                                    ![t].task = Len(subs) + 1,
                                    ![t].pc = "actn"]
    /\ UNCHANGED <<brokers, patterns, feedback, msgsRcvd, msgsActn, configs,
                   pushedLog, trigLog, bcastLog, hbLog, incs, nIn>>
    /\ UNCHANGED <<slVars, trVars>>

\* PatternRoutingBroker.HandleEvent, lines 289-292: the match is counted and
\* the loop left
HandleEventActn(t) ==
    /\ th[t].pc = "actn"
    /\ msgsActn' = msgsActn + 1
    /\ incs' = [incs EXCEPT !.actn = @ + 1]
    /\ subs' = IF th[t].task = 0 THEN subs
               ELSE [subs EXCEPT ![th[t].task].counted = @ + 1]
    /\ th' = [th EXCEPT ![t].pc = "bcast"]
    /\ UNCHANGED <<brokers, patterns, feedback, msgsRcvd, configs, pushedLog,
                   trigLog, bcastLog, hbLog, nIn>>
    /\ UNCHANGED <<slVars, trVars>>

\* PatternRoutingBroker.HandleEvent, line 287: no pattern is left
HandleEventEnd(t) ==
    /\ th[t].pc = "try"
    /\ th[t].i > Len(patterns)
    /\ th' = [th EXCEPT ![t].pc = "bcast"]
    /\ UNCHANGED <<brokers, patterns, feedback, msgsRcvd, msgsActn, configs,
                   subs, pushedLog, trigLog, bcastLog, hbLog, incs, nIn>>
    /\ UNCHANGED <<slVars, trVars>>

\* Broadcast returns: every registered broker has been called
BroadcastReturn(t) ==
    /\ th[t].pc = "bcast"
    /\ th[t].todo = <<>>
    /\ th' = [th EXCEPT ![t] = Idle]
    /\ UNCHANGED <<brokers, patterns, feedback, msgsRcvd, msgsActn, configs,
                   subs, pushedLog, trigLog, bcastLog, hbLog, incs, nIn>>
    /\ UNCHANGED <<slVars, trVars>>

\* Pattern.Submit, lines 167-218: the request is sent and the reply read
Submit(k, resp) ==
    /\ subs[k].pc = "start"
    /\ LET tk == subs[k]
           r == SubmitReply(tk.originEvt, resp)
       IN  subs' = [subs EXCEPT ![k] =
                       [tk EXCEPT !.payload = SubmitPayload(tk.p, tk.actor,
                                                            tk.text, tk.named),
                                  !.resp = resp,
                                  !.calls = @ + 1,
                                  !.out = r.ev,
                                  !.pc = IF r.push THEN "push" ELSE "done"]]
    /\ UNCHANGED <<brokers, patterns, feedback, msgsRcvd, msgsActn, configs, th,
                   pushedLog, trigLog, bcastLog, hbLog, incs, nIn>>
    /\ UNCHANGED <<slVars, trVars>>

\* Pattern.Submit, lines 219-228: the send on the feedback channel, which
\* waits while the channel is full
SubmitPush(k) ==
    /\ subs[k].pc = "push"
    /\ Len(feedback) < FeedbackCap
    /\ feedback' = Append(feedback, subs[k].out)
    /\ pushedLog' = Append(pushedLog, subs[k].out)
    /\ trigLog' = Append(trigLog, subs[k].originEvt)
    /\ subs' = [subs EXCEPT ![k].pushed = Append(@, subs[k].out),
                            ![k].pc = "done"]
    /\ UNCHANGED <<brokers, patterns, msgsRcvd, msgsActn, configs, th,
                   bcastLog, hbLog, incs, nIn>>
    /\ UNCHANGED <<slVars, trVars>>

\* a variant of Heartbeat that resets msgsRcvd alone
HeartbeatKeepsActn ==
    /\ Len(hbLog) < MaxBeats
    /\ hbLog' = Append(hbLog, <<msgsRcvd, msgsActn>>)
    /\ msgsRcvd' = 0
    /\ UNCHANGED <<brokers, patterns, feedback, msgsActn, configs, th, subs,
                   pushedLog, trigLog, bcastLog, nIn, incs>>
    /\ UNCHANGED <<slVars, trVars>>

\* PatternRoutingBroker.Heartbeat: the counters are read and reset in one
\* critical section of pmux, and logged
Heartbeat ==
    /\ Len(hbLog) < MaxBeats
    /\ hbLog' = Append(hbLog, <<msgsRcvd, msgsActn>>)
    /\ msgsRcvd' = 0
    /\ msgsActn' = 0
    /\ UNCHANGED <<brokers, patterns, feedback, configs, th, subs, pushedLog,
                   trigLog, bcastLog, nIn, incs>>
    /\ UNCHANGED <<slVars, trVars>>

vars == <<prVars, slVars, trVars>>

\* The system: the dispatcher with the Slack broker and the pattern router
\* registered, and another network's broker broadcasting events
Init ==
    /\ \E cfgs \in PatternLists : InitPR(cfgs, <<SlackName, PRBName>>)
    /\ InitSlack

Next ==
    \/ (nIn < MaxInbound /\ \E ev \in InEvents : ExtBroadcast(ev))
    \/ Activate
    \/ \E t \in Threads : \E api \in ApiAnswers : DeliverSlack(t, api)
    \/ \E t \in Threads : HandleEvent(t)
    \/ \E t \in Threads : HelperHandle(t)
    \/ \E t \in Threads : Handle(t)
    \/ \E t \in Threads : HandleEventActn(t)
    \/ \E t \in Threads : HandleEventEnd(t)
    \/ \E t \in Threads : BroadcastReturn(t)
    \/ \E k \in 1..Len(subs) : \E resp \in Responses : Submit(k, resp)
    \/ \E k \in 1..Len(subs) : SubmitPush(k)

Spec == Init /\ [][Next]_vars

\* The system with the heartbeat sweep of the pattern router
NextBeat == Next \/ Heartbeat
SpecBeat == Init /\ [][NextBeat]_vars

\* The pattern router alone under a stream of help commands, which fills
\* the feedback channel
InitFull ==
    /\ InitPR(<<CfgWx>>, <<PRBName>>)
    /\ InitSlack

NextFull ==
    \/ (nIn < MaxHelp /\ ExtBroadcast(HelpEvent(nIn)))
    \/ Activate
    \/ \E t \in Threads : HandleEvent(t)
    \/ \E t \in Threads : HelperHandle(t)
    \/ \E t \in Threads : Handle(t)
    \/ \E t \in Threads : HandleEventActn(t)
    \/ \E t \in Threads : HandleEventEnd(t)
    \/ \E t \in Threads : BroadcastReturn(t)

SpecFull == InitFull /\ [][NextFull]_vars

\* ------------------------------------------------------------------------
\* The Slack broker's cache and translation functions: inputs and actions
\* ------------------------------------------------------------------------

\* the users written to the cache: two spellings of one nick under two ids,
\* and two spellings of one nick under one id
Users ==
    {SlackUser(U1, <<"B","o","b">>, "b.png"),
     SlackUser(U3, <<"b","o","b">>, "c.png"),
     SlackUser(U2, <<"a","m","y">>, "a.png"),
     SlackUser(U2, <<"A","m","y">>, "a2.png")}
\* the keys looked up
LookupIds == {U1, U2, U3, <<"U","9">>}
LookupNicks == {<<"B","o","b">>, <<"b","o","b">>, <<"B","O","B">>,
                <<"a","M","y">>, <<"z","e","d">>, U2}

\* a message with one mention of uid: at its start and followed by ":", or
\* inside
Mention(uid) == <<"<","@">> \o uid \o <<">">>
MentionMsg(uid, lead) ==
    IF lead THEN Mention(uid) \o <<":"," ","h","i">>
    ELSE <<"h","i"," ">> \o Mention(uid)

\* a message as Slack sends it is a sequence of items: plain text, or a link
\* of one or more segments (the URL, then the label)
Txt(s) == [link |-> FALSE, s |-> s]
Link(segs) == [link |-> TRUE, segs |-> segs]
UrlA == <<"h","t","t","p",":","/","/","a">>
UrlB == <<"h","t","t","p",":","/","/","b">>
RenderItem(it) ==
    IF it.link THEN <<"<">> \o Join(it.segs, <<"|">>) \o <<">">> ELSE it.s
RECURSIVE Render(_, _)
Render(msg, i) ==
    IF i > Len(msg) THEN <<>> ELSE RenderItem(msg[i]) \o Render(msg, i + 1)
SimplifyInputs ==
    {<<Link(<<UrlA, <<"A">>>>)>>,
     <<Link(<<UrlA>>)>>,
     <<Link(<<UrlA, <<>>>>)>>,
     <<Link(<<UrlA, <<"A">>, <<"z">>>>)>>,
     <<Txt(<<"x"," ">>), Link(<<UrlA, <<"A">>>>), Txt(<<" ","y">>)>>,
     <<Link(<<UrlA, <<"A">>>>), Txt(<<" ">>), Link(<<UrlB, <<"B">>>>)>>,
     <<Link(<<UrlA, <<"A">>>>), Txt(<<"\n">>), Link(<<UrlB, <<"B">>>>)>>,
     <<Link(<<UrlA>>), Txt(<<" ","&","a","m","p",";"," ">>), Link(<<UrlB>>)>>}

\* fresh after a cache write of user v
WriteFresh(fr, v) ==
    {u \in fr : u.Id # v.Id /\ ToLower(u.Nick) # ToLower(v.Nick)} \cup {v}
\* fresh after the remote lookups calls[i..]: each one the API answers is
\* written to the cache by UserFromAPI
RECURSIVE ApiWrites(_, _, _, _)
ApiWrites(fr, api, calls, i) ==
    IF i > Len(calls) THEN fr
    ELSE ApiWrites(IF calls[i] \in DOMAIN api
                   THEN WriteFresh(fr, SlackUser(calls[i], api[calls[i]].Name,
                                                 api[calls[i]].Image72))
                   ELSE fr,
                   api, calls, i + 1)

\* SlackUserCache.CacheUser(u)
SlCacheUser(u) ==
    /\ cache' = CacheUser(cache, u)
    /\ fresh' = WriteFresh(fresh, u)
    /\ last' = [kind |-> "CacheUser", user |-> u]
    /\ UNCHANGED <<chanid, rtm, mybotid, slRcvd, slSent, posted, slLast>>
    /\ UNCHANGED prVars

\* SlackUserCache.UserNick(sb, ukey, cacheOnly)
SlUserNick(ukey, cacheOnly, api) ==
    /\ \E r \in {UserNick(cache, api, ukey, cacheOnly)} :
          /\ cache' = r.c
          /\ fresh' = ApiWrites(fresh, api, r.calls, 1)
          /\ last' = [kind |-> "UserNick", key |-> ukey,
                      cacheOnly |-> cacheOnly, val |-> r.val]
    /\ UNCHANGED <<chanid, rtm, mybotid, slRcvd, slSent, posted, slLast>>
    /\ UNCHANGED prVars

\* SlackUserCache.UserId(sb, nick, cacheOnly)
SlUserId(nick, cacheOnly, api) ==
    /\ \E r \in {UserId(cache, api, nick, cacheOnly)} :
          /\ cache' = r.c
          /\ fresh' = ApiWrites(fresh, api, r.calls, 1)
          /\ last' = [kind |-> "UserId", key |-> nick,
                      cacheOnly |-> cacheOnly, val |-> r.val]
    /\ UNCHANGED <<chanid, rtm, mybotid, slRcvd, slSent, posted, slLast>>
    /\ UNCHANGED prVars

\* ConvertRefsToUsers, then ConvertUsersToRefs on its result, then
\* ConvertRefsToUsers on that, with nothing else done on the broker in
\* between. c0 is the cache before
RoundTrip(uid, lead, cacheOnly, api) ==
    /\ \E r1 \in {ConvertRefsToUsers(cache, api, MentionMsg(uid, lead),
                                     cacheOnly)} :
       \E r2 \in {ConvertUsersToRefs(r1.c, api, r1.s, cacheOnly)} :
       \E r3 \in {IF r2.panic THEN [s |-> r2.s, c |-> r2.c, calls |-> <<>>]
                  ELSE ConvertRefsToUsers(r2.c, api, r2.s, cacheOnly)} :
          /\ cache' = r3.c
          /\ fresh' = ApiWrites(fresh, api, r1.calls \o r2.calls \o r3.calls, 1)
          /\ last' = [kind |-> "RoundTrip", uid |-> uid, lead |-> lead,
                      cacheOnly |-> cacheOnly, c0 |-> cache,
                      s1 |-> r1.s, s2 |-> r2.s, s3 |-> r3.s,
                      panic |-> r2.panic]
    /\ UNCHANGED <<chanid, rtm, mybotid, slRcvd, slSent, posted, slLast>>
    /\ UNCHANGED prVars

\* SlackBroker.SimplifyParse on the message msg as Slack renders it
Simplify(msg) ==
    /\ \E r \in {SimplifyParse(Render(msg, 1))} :
          last' = [kind |-> "SimplifyParse", msg |-> msg, out |-> r.s,
                   panic |-> r.panic]
    /\ UNCHANGED <<fresh, cache, chanid, rtm, mybotid, slRcvd, slSent, posted,
                   slLast>>
    /\ UNCHANGED prVars

\* The Slack broker alone: its cache and its translation functions, called
\* in any order
InitSlackOnly ==
    /\ InitPR(<<>>, <<SlackName>>)
    /\ InitSlack

NextSlack ==
    \/ \E u \in Users : SlCacheUser(u)
    \/ \E k \in LookupIds : \E co \in BOOLEAN : \E api \in ApiAnswers :
          SlUserNick(k, co, api)
    \/ \E n \in LookupNicks : \E co \in BOOLEAN : \E api \in ApiAnswers :
          SlUserId(n, co, api)
    \/ \E uid \in {U1, U2, U3} : \E lead \in BOOLEAN : \E co \in BOOLEAN :
       \E api \in ApiAnswers :
          RoundTrip(uid, lead, co, api)
    \/ \E msg \in SimplifyInputs : Simplify(msg)

SpecSlack == InitSlackOnly /\ [][NextSlack]_vars

\* ------------------------------------------------------------------------
\* Properties of the pattern router (Spec)
\* ------------------------------------------------------------------------

\* the goroutines whose HTTP call is over
Called == {k \in 1..Len(subs) : subs[k].pc \in {"push", "done"}}
\* the goroutines that have returned
Done == {k \in 1..Len(subs) : subs[k].pc = "done"}
\* the HandleEvent call that started goroutine k has counted its match
CountedFor(k) == \A t \in Threads : ~(th[t].pc = "actn" /\ th[t].task = k)

\* C1: in one HandleEvent call the patterns are tried in list order, the
\* help handler first and then the configured patterns in configuration
\* order; at most one pattern fires, and the one that fires is the last one
\* tried
C1_FirstMatchWins ==
    /\ patterns[1].kind = "helper"
    /\ \A j \in 2..Len(patterns) :
          /\ patterns[j].kind = "pattern"
          /\ j - 1 <= Len(configs)
          /\ patterns[j].name = configs[j - 1].Name
    /\ \A t \in Threads :
          /\ \A j \in 1..Len(th[t].tried) : th[t].tried[j] = j
          /\ Len(th[t].fired) <= 1
          /\ th[t].fired # <<>> =>
                th[t].fired[1] = th[t].tried[Len(th[t].tried)]
          /\ th[t].task # 0 =>
                /\ th[t].fired = <<th[t].i>>
                /\ subs[th[t].task].originEvt = th[t].ev
                /\ subs[th[t].task].p = patterns[th[t].i]

\* C1 witness: the text matches both configured patterns, the first has
\* fired and the call is over without the second having been tried
C1_Witness ==
    \E t \in Threads :
        /\ Len(patterns) = 3
        /\ th[t].pc = "bcast"
        /\ th[t].fired = <<2>>
        /\ th[t].tried = <<1, 2>>
        /\ Len(ExtractMatches(patterns[3], th[t].ev.Text).matches) # 0

\* C2: the payload of every call has the keys actor and text, the names of
\* the capture groups and the keys of the static vars the pattern was
\* configured with, and a static var wins over a capture of the same name
C2_PayloadHasStaticVars ==
    \A k \in Called :
        LET V == ConfigOf(subs[k].p).Vars
        IN  /\ DOMAIN subs[k].payload
                 = {"actor", "text"} \cup DOMAIN subs[k].named \cup DOMAIN V
            /\ \A key \in DOMAIN V : subs[k].payload[key] = V[key]

\* C3: a call answered with status 200 and a non-empty body that parses
\* puts exactly one event on feedback: a command output with the reply's
\* text and one block per reply block, in the reply's order
C3_ReplyBecomesOneEvent ==
    \A k \in 1..Len(subs) :
        LET tk == subs[k]
            B == tk.resp.body
        IN  (/\ tk.pc \in {"push", "done"}
             /\ ~tk.resp.err
             /\ HasPrefix(tk.resp.Status, St200)
             /\ B.len > 0 /\ B.json)
            => /\ Len(tk.pushed) = (IF tk.pc = "done" THEN 1 ELSE 0)
               /\ tk.out.IsCmdOutput
               /\ tk.out.Text = B.Text
               /\ Len(tk.out.ContentBlocks) = Len(B.Blocks)
               /\ \A i \in 1..Len(B.Blocks) :
                     tk.out.ContentBlocks[i]
                       = EventBlock(B.Blocks[i].Title, B.Blocks[i].Text,
                                    B.Blocks[i].Img)
               /\ tk.pc = "done" => tk.pushed = <<tk.out>>

\* C3 witness: a reply with two blocks has been put on feedback
C3_Witness ==
    \E k \in Done :
        /\ HasPrefix(subs[k].resp.Status, St200)
        /\ Len(subs[k].resp.body.Blocks) = 2
        /\ Len(subs[k].pushed) = 1
        /\ subs[k].pushed[1] \in Range(pushedLog)

\* a reply with a status that is not 2xx
Non2xx(resp) == ~resp.err /\ ~HasPrefix(resp.Status, <<"2">>)

\* C4: a call that fails at transport level or is answered with a status
\* that is not 2xx puts nothing on feedback and is not repeated, and the
\* match is counted once in msgsActn all the same
C4_FailureIsSilentButCounted ==
    \A k \in Called :
        (subs[k].resp.err \/ Non2xx(subs[k].resp))
        => /\ subs[k].pc = "done"
           /\ subs[k].pushed = <<>>
           /\ subs[k].calls = 1
           /\ CountedFor(k) => subs[k].counted = 1 /\ msgsActn >= 1

\* C4 witness: one call answered 404 and counted, with nothing on feedback
C4_Witness ==
    \E k \in Done :
        /\ Non2xx(subs[k].resp)
        /\ CountedFor(k)
        /\ subs[k].counted = 1
        /\ pushedLog = <<>>

\* the event is addressed to a broker other than b
ForAnotherThan(ev, b) == ev.ReplyBroker # NoBroker /\ ev.ReplyBroker # b

\* C8: the Slack broker ignores an event whose ReplyBroker is another
\* broker: it posts nothing and counts nothing. The pattern router does not
\* look at ReplyBroker: it tries its patterns on such an event as on any
\* other, and what a match puts on feedback carries the event's ReplyBroker
\* and ReplyTarget
C8_SlackIgnoresRouterRoutes ==
    /\ (slLast.n > 0 /\ ForAnotherThan(slLast.ev, SlackName))
          => slLast.posts = 0 /\ slLast.rcvd = 0 /\ ~slLast.panic
    /\ (slLast.n > 0 /\ ~ForAnotherThan(slLast.ev, SlackName))
          => slLast.rcvd = 1
    /\ \A t \in Threads :
          (th[t].pc = "bcast" /\ PRBName \notin Range(th[t].todo)
             /\ PRBName \in Range(brokers))
          => th[t].tried # <<>>
    /\ \A k \in 1..Len(subs) :
          /\ subs[k].out # NoEvent =>
                /\ subs[k].out.ReplyBroker = subs[k].originEvt.ReplyBroker
                /\ subs[k].out.ReplyTarget = subs[k].originEvt.ReplyTarget
          /\ \A j \in 1..Len(subs[k].pushed) : subs[k].pushed[j] = subs[k].out

\* C8 witness: an event addressed to another network's broker has gone by
\* the Slack broker, and the reply to its command is on feedback, addressed
\* to that broker
C8_Witness ==
    /\ slLast.n > 0
    /\ slLast.ev.ReplyBroker = OtherName
    /\ slLast.posts = 0
    /\ \E k \in Done :
          /\ subs[k].originEvt = slLast.ev
          /\ Len(subs[k].pushed) = 1
          /\ subs[k].pushed[1].ReplyBroker = OtherName

\* C8 as stated: neither the Slack broker nor the pattern router does
\* anything with an event whose ReplyBroker is another broker
C8_EveryOtherBrokerIgnores ==
    /\ (slLast.n > 0 /\ ForAnotherThan(slLast.ev, SlackName))
          => slLast.posts = 0 /\ slLast.rcvd = 0
    /\ \A t \in Threads :
          ForAnotherThan(th[t].ev, PRBName) => th[t].tried = <<>>
    /\ \A k \in 1..Len(subs) : ~ForAnotherThan(subs[k].originEvt, PRBName)

\* ------------------------------------------------------------------------
\* Properties of the feedback channel (SpecFull)
\* ------------------------------------------------------------------------

\* the events as pushed: Activate sets Origin before it broadcasts
AsPushed(evs) == [j \in 1..Len(evs) |-> [evs[j] EXCEPT !.Origin = NoBroker]]

\* a thread is in HelperPattern.Handle at the send of line 47
AtHelpSend(t) ==
    /\ th[t].pc = "try"
    /\ th[t].i <= Len(patterns)
    /\ patterns[th[t].i].kind = "helper"
    /\ HasPrefix(th[t].ev.Text, TxtList)

\* C5: feedback never holds more than 100 events, and the events Activate
\* has passed to Broadcast followed by the events still on feedback are the
\* events pushed, each once and in the order pushed
C5_FeedbackIsBoundedFifo ==
    /\ Len(feedback) <= FeedbackCap
    /\ AsPushed(bcastLog) \o feedback = pushedLog
    /\ \A j \in 1..Len(bcastLog) : bcastLog[j].Origin = PRBName

\* C5 witness: feedback is full with a producer waiting at its send, after
\* Activate has broadcast two events that differ
C5_Witness ==
    /\ Len(feedback) = FeedbackCap
    /\ \E t \in Threads : AtHelpSend(t)
    /\ Len(bcastLog) >= 2
    /\ bcastLog[1] # bcastLog[2]

\* C6: a thread in PatternRoutingBroker.HandleEvent never has to wait: when
\* it is at the send of the help handler, feedback has room
C6_HandleEventNeverWaits ==
    \A t \in Threads : AtHelpSend(t) => Len(feedback) < FeedbackCap

\* ------------------------------------------------------------------------
\* Properties of the Slack broker's cache and translation (SpecSlack)
\* ------------------------------------------------------------------------

\* the spellings of nick that differ from it in letter case only
CaseVariants(nick) ==
    {v \in [1..Len(nick) -> UNION {{ToLowerCh(nick[i]), ToUpperCh(nick[i])} :
                                     i \in 1..Len(nick)}] :
        \A i \in 1..Len(nick) : ToLowerCh(v[i]) = ToLowerCh(nick[i])}

\* C7: a user written to the cache, while no later write has touched its id
\* or its lower-cased nick, is found by a cache-only UserNick under its id
\* and by a cache-only UserId under every spelling of its nick
C7_CachedUserIsFound ==
    /\ \A u \in fresh :
          /\ UserNick(cache, EmptyMap, u.Id, TRUE).val = u.Nick
          /\ \A n \in CaseVariants(u.Nick) :
                UserId(cache, EmptyMap, n, TRUE).val = u.Id
    /\ (last.kind = "UserNick" /\ last.cacheOnly)
          => \A u \in fresh : u.Id = last.key => last.val = u.Nick
    /\ (last.kind = "UserId" /\ last.cacheOnly)
          => \A u \in fresh :
                ToLower(u.Nick) = ToLower(last.key) => last.val = u.Id

\* C7 witness: with two users cached, a cache-only UserId has found one of
\* them under a spelling that is not the one cached
C7_Witness ==
    /\ last.kind = "UserId" /\ last.cacheOnly
    /\ Cardinality(DOMAIN cache.users) >= 2
    /\ \E u \in fresh :
          /\ ToLower(u.Nick) = ToLower(last.key)
          /\ u.Nick # last.key
          /\ last.val = u.Id

\* the user uid is in the cache c and no other cached user has its nick
Unambiguous(c, uid) ==
    /\ uid \in DOMAIN c.users
    /\ \A k \in DOMAIN c.users :
          ToLower(c.users[k].Nick) = ToLower(c.users[uid].Nick) => k = uid
    /\ ToLower(c.users[uid].Nick) \in DOMAIN c.nicks
    /\ c.nicks[ToLower(c.users[uid].Nick)].Id = uid

\* C9: for a message with one mention of a cached user whose nick no other
\* cached user has, ConvertRefsToUsers after ConvertUsersToRefs after
\* ConvertRefsToUsers gives the text the first ConvertRefsToUsers gave
C9_RoundTripIsStable ==
    (last.kind = "RoundTrip" /\ Unambiguous(last.c0, last.uid))
    => ~last.panic /\ last.s3 = last.s1

\* what a message should read as once every link is replaced by its label,
\* or by its first segment when it has no label or more than two segments
ExpectedItem(it) ==
    IF ~it.link THEN UnescapeString(it.s)
    ELSE IF Len(it.segs) = 2 /\ it.segs[2] # <<>> THEN it.segs[2]
    ELSE it.segs[1]
RECURSIVE Expected(_, _)
Expected(msg, i) ==
    IF i > Len(msg) THEN <<>> ELSE ExpectedItem(msg[i]) \o Expected(msg, i + 1)

\* C10: SimplifyParse replaces each link of the message by its label, or by
\* its first segment when it has no label or more than two segments,
\* whatever else the message holds
C10_EveryLinkSimplified ==
    last.kind = "SimplifyParse"
    => ~last.panic /\ last.out = Expected(last.msg, 1)

\* ------------------------------------------------------------------------
\* Start-up: the construction of patterns
\* ------------------------------------------------------------------------

\* the URLs, methods and expressions a configuration may hold: well-formed
\* and not
SetupUrls ==
    {Url1,
     <<"H","T","T","P",":","/","/","A",".","I","O","/","W">>,
     <<"f","t","p",":","/","/","a",".","i","o","/","w">>,
     <<"f","t","p",":","/","/","a">>,
     <<"h","t","t">>,
     <<"h","t","t","p","s",":","/","/","a">>,
     <<>>}
SetupMethods ==
    {<<"P","O","S","T">>, <<"g","e","t">>, <<"G","e","t">>,
     <<"P","U","T">>, <<"D","E","L","E","T","E">>, <<>>}
SetupRegexes ==
    {Regex(TRUE, <<"!","w">>, <<"arg">>), Regex(FALSE, <<"!","(">>, <<>>),
     Regex(TRUE, <<"!">>, <<"">>)}
SetupConfigs ==
    {PatternConfig("p", <<"h">>, re, url, meth, EmptyMap, [k |-> <<"v">>]) :
        re \in SetupRegexes, url \in SetupUrls, meth \in SetupMethods}

\* NewExtendedPattern on the fields of a configuration
Construct(cfg) ==
    /\ \E r \in {NewExtendedPattern(cfg.Name, cfg.RegEx, cfg.Url, cfg.Headers,
                                    cfg.Vars, cfg.Method, cfg.Help)} :
          last' = [kind |-> "NewExtendedPattern", cfg |-> cfg, r |-> r]
    /\ UNCHANGED <<fresh, slVars, prVars>>

\* The construction of patterns alone, on every configuration
NextPatterns == \E cfg \in SetupConfigs : Construct(cfg)
SpecPatterns == InitSlackOnly /\ [][NextPatterns]_vars

\* the URL begins with "http", in either case
HttpShaped(url) == HasPrefix(ToLower(url), <<"h","t","t","p">>)
\* the method is GET or POST, in either case
MethodAllowed(meth) ==
    ToUpper(meth) \in {<<"G","E","T">>, <<"P","O","S","T">>}

\* C11: NewExtendedPattern returns an error, and no pattern, for a URL that
\* does not begin with "http", for a method other than GET and POST, and for
\* an expression that does not compile
C11_BadConfigIsRejected ==
    last.kind = "NewExtendedPattern"
    => ((~HttpShaped(last.cfg.Url) \/ ~MethodAllowed(last.cfg.Method)
           \/ ~last.cfg.RegEx.valid)
        => last.r.err)

\* ------------------------------------------------------------------------
\* Start-up and inbound path of the Slack broker
\* ------------------------------------------------------------------------

\* strings.TrimSpace
IsSpace(c) == c \in {" ", "\n", "\t", "\r"}
TrimSpace(s) ==
    LET keep == {i \in 1..Len(s) : ~IsSpace(s[i])}
    IN  IF keep = {} THEN <<>>
        ELSE SubSeq(s, CHOOSE i \in keep : \A j \in keep : i <= j,
                       CHOOSE i \in keep : \A j \in keep : j <= i)

\* SlackUserCache.PopulateCache, from the i-th member on
RECURSIVE PopulateCache(_, _, _, _)
PopulateCache(c, api, mems, i) ==
    IF i > Len(mems) THEN c
    ELSE PopulateCache(UserFromAPI(c, api, mems[i]).c, api, mems, i + 1)

\* a channel as GetChannels lists it
Channel(name, id, members) == [Name |-> name, ID |-> id, Members |-> members]
\* what GetChannels may answer: nothing (its error is dropped), or the
\* workspace's channels
ChannelLists ==
    {<<>>,
     <<Channel("ops", "C7", <<U3>>), Channel("dev", "C1", <<U1, U2>>)>>}
\* the channel names a configuration may hold
ChannelNames == {"dev", "#dev", "nochan"}

\* SlackBroker.Setup, lines 279-292, on a broker fresh from SetupInternals:
\* the channel id and the cache afterwards, and the members looked up
SlackSetup(channel, channels, api) ==
    LET hit == {i \in 1..Len(channels) : channels[i].Name = channel}
    IN  IF hit = {}
        THEN [chanid |-> "", cache |-> EmptyCache, mems |-> <<>>]
        ELSE LET i == CHOOSE i \in hit : \A j \in hit : i <= j
             IN  [chanid |-> channels[i].ID,
                  cache |-> PopulateCache(EmptyCache, api,
                                          channels[i].Members, 1),
                  mems |-> channels[i].Members]

\* a message event as the RTM connection delivers it (one without files or
\* attachments)
MessageEvent(bot, user, channel, text) ==
    [BotID |-> bot, User |-> user, Channel |-> channel, Text |-> text]
MessageEvents ==
    {MessageEvent("", U2, "C1", TxtHi),
     MessageEvent("", U2, "D1", TxtHi),
     MessageEvent("", U1, "C1",
                  <<" ">> \o Mention(U1) \o <<":"," ">>
                  \o RenderItem(Link(<<UrlA, <<"A">>>>)) \o <<" ">>),
     MessageEvent(MyBot, U2, "C1", TxtHi),
     MessageEvent("", <<>>, "C1", TxtHi)}

\* SlackBroker.ParseToEvent: the event, the cache afterwards, the remote
\* lookups made, and whether a slice expression panicked
ParseToEvent(c, api, e) ==
    LET n == UserNick(c, api, e.User, FALSE)
        r == ConvertRefsToUsers(n.c, api, TrimSpace(e.Text), FALSE)
        sp == SimplifyParse(r.s)
    IN  [ev |-> Event(FALSE, SlackName, NoBroker, "", n.val, sp.s, <<>>),
         c |-> r.c, calls |-> n.calls \o r.calls, panic |-> sp.panic]

\* the dispatcher's AddBroker for the Slack broker: SlackBroker.Setup runs,
\* and the broker is registered
AddSlackBroker(channel, channels, api) ==
    /\ rtm = "nil"
    /\ \E r \in {SlackSetup(channel, channels, api)} :
          /\ chanid' = r.chanid
          /\ cache' = r.cache
          /\ fresh' = ApiWrites({}, api, r.mems, 1)
          /\ last' = [kind |-> "Setup", channel |-> channel,
                      resolved |-> r.chanid # ""]
    /\ rtm' = "rtm"
    /\ mybotid' = MyBot
    /\ brokers' = Append(brokers, SlackName)
    /\ UNCHANGED <<slRcvd, slSent, posted, slLast>>
    /\ UNCHANGED <<patterns, feedback, msgsRcvd, msgsActn, configs, th, subs,
                   pushedLog, trigLog, bcastLog, hbLog, incs, nIn>>

\* SlackBroker.Activate, lines 432-469, for one message event
SlackIncoming(e, api) ==
    /\ rtm = "rtm"
    /\ th["slack"].pc = "idle"
    /\ nIn' = nIn + 1
    /\ IF e.BotID # mybotid /\ Len(e.User) > 0
       THEN \E r \in {ParseToEvent(cache, api, e)} :
               /\ cache' = r.c
               /\ fresh' = ApiWrites(fresh, api, r.calls, 1)
               /\ last' = [kind |-> "ParseToEvent", e |-> e, ev |-> r.ev,
                           panic |-> r.panic]
               /\ IF r.panic
                  THEN UNCHANGED <<slSent, th>>
                  ELSE /\ slSent' = slSent + 1
                       /\ EnterBroadcast("slack",
                             IF e.Channel # chanid
                             THEN [r.ev EXCEPT !.ReplyBroker = SlackName,
                                               !.ReplyTarget = e.Channel]
                             ELSE r.ev)
       ELSE /\ last' = [kind |-> "Ignored", e |-> e]
            /\ UNCHANGED <<cache, fresh, slSent, th>>
    /\ UNCHANGED <<chanid, rtm, mybotid, slRcvd, posted, slLast>>
    /\ UNCHANGED <<brokers, patterns, feedback, msgsRcvd, msgsActn, configs,
                   subs, pushedLog, trigLog, bcastLog, hbLog, incs>>

\* The Slack broker from the dispatcher's AddBroker on, with another
\* network's broker broadcasting
InitStart ==
    /\ InitPR(<<>>, <<>>)
    /\ fresh = {}
    /\ last = [kind |-> "none"]
    /\ cache = EmptyCache
    /\ chanid = ""
    /\ rtm = "nil"
    /\ mybotid = ""
    /\ slRcvd = 0
    /\ slSent = 0
    /\ posted = <<>>
    /\ slLast = [n |-> 0, ev |-> NoEvent, posts |-> 0, rcvd |-> 0,
                 panic |-> FALSE, lookups |-> <<>>]

NextStart ==
    \/ \E ch \in ChannelNames : \E chs \in ChannelLists :
       \E api \in ApiAnswers :
          AddSlackBroker(ch, chs, api)
    \/ (nIn < MaxInbound /\ \E e \in MessageEvents : \E api \in ApiAnswers :
          SlackIncoming(e, api))
    \/ (nIn < MaxInbound /\ \E ev \in InEvents : ExtBroadcast(ev))
    \/ \E t \in Threads : \E api \in ApiAnswers : DeliverSlack(t, api)
    \/ \E t \in Threads : BroadcastReturn(t)

SpecStart == InitStart /\ [][NextStart]_vars

\* C12: once Setup has failed to resolve its channel the Slack broker does
\* nothing: its Activate loop passes no event to Broadcast and its
\* HandleEvent posts no message
C12_UnresolvedChannelIsInert ==
    (rtm = "rtm" /\ chanid = "")
    => /\ th["slack"].pc = "idle"
       /\ slSent = 0
       /\ posted = <<>>

\* ------------------------------------------------------------------------
\* Properties of the feedback events (Spec)
\* ------------------------------------------------------------------------

\* C13: every event the pattern router has pushed onto feedback, a reply of
\* an endpoint or the help reply, carries the ReplyBroker and ReplyTarget of
\* the event whose handling produced it, and every event Activate has passed
\* to Broadcast carries them still and has the pattern router as Origin
C13_FeedbackKeepsReplyRoute ==
    /\ Len(trigLog) = Len(pushedLog)
    /\ Len(bcastLog) <= Len(pushedLog)
    /\ \A j \in 1..Len(pushedLog) :
          /\ pushedLog[j].ReplyBroker = trigLog[j].ReplyBroker
          /\ pushedLog[j].ReplyTarget = trigLog[j].ReplyTarget
    /\ \A j \in 1..Len(bcastLog) :
          /\ bcastLog[j].Origin = PRBName
          /\ bcastLog[j].ReplyBroker = trigLog[j].ReplyBroker
          /\ bcastLog[j].ReplyTarget = trigLog[j].ReplyTarget
          /\ bcastLog[j] = [pushedLog[j] EXCEPT !.Origin = PRBName]

\* C13 witness: a help command that asked for a private reply has been
\* answered, and the help reply, broadcast by Activate, has matched a
\* pattern whose endpoint's reply Activate has broadcast too, both to the
\* asker
C13_Witness ==
    /\ Len(bcastLog) = 2
    /\ trigLog[1].Text = TxtList
    /\ trigLog[1].ReplyBroker = OtherName
    /\ trigLog[2] = bcastLog[1]
    /\ bcastLog[2].ReplyBroker = OtherName
    /\ bcastLog[2].ReplyTarget = "u9"
    /\ \E k \in Done : subs[k].pushed = <<pushedLog[2]>>

\* a reply with a status of the 2xx class
Is2xx(resp) == ~resp.err /\ HasPrefix(resp.Status, <<"2">>)

\* C14: a call answered with any status of the 2xx class and a non-empty
\* body that parses puts exactly one event on feedback, and a reply is
\* dropped for its status only when the status is not 2xx
C14_Every2xxIsSuccess ==
    \A k \in Done :
        (/\ Is2xx(subs[k].resp)
         /\ subs[k].resp.body.len > 0
         /\ subs[k].resp.body.json)
        => Len(subs[k].pushed) = 1

\* C15: a call answered with a success status and an empty body, or a body
\* that does not parse, puts nothing on feedback: no event is built from
\* the reply, and the goroutine returns
C15_EmptyOrUnparsedIsDropped ==
    \A k \in Called :
        (/\ Is2xx(subs[k].resp)
         /\ (subs[k].resp.body.len = 0 \/ ~subs[k].resp.body.json))
        => /\ subs[k].pc = "done"
           /\ subs[k].out = NoEvent
           /\ subs[k].pushed = <<>>

\* C15 witness: a call has been answered 200 with a body that does not
\* parse, its goroutine has returned and feedback has seen nothing
C15_Witness ==
    /\ pushedLog = <<>>
    /\ \E k \in Done :
          /\ HasPrefix(subs[k].resp.Status, St200)
          /\ subs[k].resp.body.len > 0
          /\ ~subs[k].resp.body.json
          /\ subs[k].calls = 1

\* ------------------------------------------------------------------------
\* Properties of the Slack broker's HandleEvent (Spec)
\* ------------------------------------------------------------------------

\* C16: when SlackBroker.HandleEvent returns to the dispatcher it has made
\* no network call: it has looked up no nick remotely and has posted no
\* message
C16_HandleEventIsOffline ==
    slLast.n > 0 => slLast.lookups = <<>> /\ slLast.posts = 0

\* ------------------------------------------------------------------------
\* The drain loop under fair scheduling
\* ------------------------------------------------------------------------

\* what the endpoint answers in this specification: a text that begins with
\* the help command
LiveResponses ==
    {Response(FALSE, St200, 9, TRUE, TxtList, <<>>)}

\* the command that other networks' users send first
WxEvent == Event(FALSE, OtherName, NoBroker, "", Al, TxtWx, <<>>)

\* The pattern router alone in one scenario: a command for the endpoint,
\* and when its goroutine has returned, a burst of help commands, all of
\* them sent before the router has answered an event of its own
NextLive ==
    \/ (nIn = 0 /\ ExtBroadcast(WxEvent))
    \/ (/\ 0 < nIn /\ nIn < MaxHelp
        /\ \A k \in 1..Len(subs) : subs[k].pc = "done"
        /\ \A j \in 1..Len(trigLog) : trigLog[j].Origin # PRBName
        /\ ExtBroadcast(HelpEvent(nIn)))
    \/ Activate
    \/ \E t \in Threads : HandleEvent(t)
    \/ \E t \in Threads : HelperHandle(t)
    \/ \E t \in Threads : Handle(t)
    \/ \E t \in Threads : HandleEventActn(t)
    \/ \E t \in Threads : HandleEventEnd(t)
    \/ \E t \in Threads : BroadcastReturn(t)
    \/ \E k \in 1..Len(subs) : \E resp \in LiveResponses : Submit(k, resp)
    \/ \E k \in 1..Len(subs) : SubmitPush(k)

\* one step of the goroutine that runs Activate: it takes an event, or goes
\* on in the Broadcast it is in
DrainStep ==
    \/ Activate
    \/ HandleEvent("drain")
    \/ HelperHandle("drain")
    \/ Handle("drain")
    \/ HandleEventActn("drain")
    \/ HandleEventEnd("drain")
    \/ BroadcastReturn("drain")

\* The goroutine that runs Activate takes a step whenever it can go on
\* taking one. Nothing obliges other networks to send or the endpoint to
\* answer
FairLive == WF_vars(DrainStep)

SpecLive == InitFull /\ [][NextLive]_vars /\ FairLive

\* C17: under fair scheduling every event pushed is re-broadcast in the
\* end: whenever feedback holds events, the loop of Activate comes to have
\* broadcast all that were pushed, the answers to its own events included
C17_EveryPushIsDrained ==
    (Len(bcastLog) < Len(pushedLog)) ~> (Len(bcastLog) = Len(pushedLog))

\* ------------------------------------------------------------------------
\* Properties of the cache indexes (SpecSlack)
\* ------------------------------------------------------------------------

\* C18: the two indexes of the cache hold the same records: the nick index
\* has every record of the id index under its folded nick, the id index
\* has every record of the nick index under its id, and so the id found
\* for the nick found for a cached id is that id
C18_IndexesHoldTheSameRecords ==
    /\ \A id \in DOMAIN cache.users :
          /\ ToLower(cache.users[id].Nick) \in DOMAIN cache.nicks
          /\ cache.nicks[ToLower(cache.users[id].Nick)] = cache.users[id]
          /\ UserId(cache, EmptyMap,
                    UserNick(cache, EmptyMap, id, TRUE).val, TRUE).val = id
    /\ \A n \in DOMAIN cache.nicks :
          /\ cache.nicks[n].Id \in DOMAIN cache.users
          /\ cache.users[cache.nicks[n].Id] = cache.nicks[n]

\* ------------------------------------------------------------------------
\* The two translations, each on its own
\* ------------------------------------------------------------------------

\* the messages read from Slack: one mention, the same mention twice (of
\* U1, and of an id that neither the cache nor the API knows), and two
\* different mentions
RefsInputs ==
    {Mention(U2),
     Mention(U1) \o <<" ">> \o Mention(U1),
     Mention(<<"U","9">>) \o <<" ">> \o Mention(<<"U","9">>),
     Mention(U1) \o <<" ">> \o Mention(U2)}

\* a message on its way to Slack is a sequence of tokens: the shorthand
\* "name:" that opens a line, "@name", and plain text
LeadTok(name) == [tok |-> "lead", s |-> name]
AtTok(name) == [tok |-> "at", s |-> name]
PlainTok(s) == [tok |-> "plain", s |-> s]
RenderTok(it) ==
    CASE it.tok = "lead" -> it.s \o <<":">>
      [] it.tok = "at" -> <<"@">> \o it.s
      [] it.tok = "plain" -> it.s
RECURSIVE RenderToks(_, _)
RenderToks(msg, i) ==
    IF i > Len(msg) THEN <<>> ELSE RenderTok(msg[i]) \o RenderToks(msg, i + 1)

\* the messages sent: bob and amy are nicks of Users, zed and amyx are not
UsersInputs ==
    {<<LeadTok(<<"b","o","b">>), PlainTok(<<" ","h","i">>)>>,
     <<LeadTok(<<"b","o","b">>), PlainTok(<<" ","b","o","b","c","a","t">>)>>,
     <<LeadTok(<<"z","e","d">>), PlainTok(<<" ","h","i">>)>>,
     <<PlainTok(<<"h","i"," ">>), AtTok(<<"a","m","y">>)>>,
     <<PlainTok(<<"h","i"," ">>), AtTok(<<"z","e","d">>)>>,
     <<AtTok(<<"a","m","y">>), PlainTok(<<" ">>),
       AtTok(<<"a","m","y","x">>)>>}

\* SlackBroker.ConvertRefsToUsers(s, cacheOnly)
RefsToUsers(s, cacheOnly, api) ==
    /\ \E r \in {ConvertRefsToUsers(cache, api, s, cacheOnly)} :
          /\ cache' = r.c
          /\ fresh' = ApiWrites(fresh, api, r.calls, 1)
          /\ last' = [kind |-> "ConvertRefsToUsers", s |-> s,
                      cacheOnly |-> cacheOnly, c0 |-> cache, api |-> api,
                      out |-> r.s, calls |-> r.calls]
    /\ UNCHANGED <<chanid, rtm, mybotid, slRcvd, slSent, posted, slLast>>
    /\ UNCHANGED prVars

\* SlackBroker.ConvertUsersToRefs(s, cacheOnly) on the message msg
UsersToRefs(msg, cacheOnly, api) ==
    /\ \E r \in {ConvertUsersToRefs(cache, api, RenderToks(msg, 1),
                                    cacheOnly)} :
          /\ cache' = r.c
          /\ fresh' = ApiWrites(fresh, api, r.calls, 1)
          /\ last' = [kind |-> "ConvertUsersToRefs", msg |-> msg,
                      cacheOnly |-> cacheOnly, c0 |-> cache, api |-> api,
                      out |-> r.s, calls |-> r.calls, panic |-> r.panic]
    /\ UNCHANGED <<chanid, rtm, mybotid, slRcvd, slSent, posted, slLast>>
    /\ UNCHANGED prVars

NextRefs ==
    \/ \E u \in Users : SlCacheUser(u)
    \/ \E s \in RefsInputs : \E co \in BOOLEAN : \E api \in ApiAnswers :
          RefsToUsers(s, co, api)
    \/ \E msg \in UsersInputs : \E co \in BOOLEAN : \E api \in ApiAnswers :
          UsersToRefs(msg, co, api)

SpecRefs == InitSlackOnly /\ [][NextRefs]_vars

\* C19: one call of ConvertRefsToUsers looks no id up remotely more than
\* once, however many times the message mentions it
C19_EachIdLookedUpOnce ==
    last.kind = "ConvertRefsToUsers"
    => \A i, j \in 1..Len(last.calls) :
          last.calls[i] = last.calls[j] => i = j

\* the token names a user whose id passes the format check of its loop
Resolves(it, c, api, cacheOnly) ==
    /\ it.tok # "plain"
    /\ Len(UserId(c, api, it.s, cacheOnly).val)
         > (IF it.tok = "lead" THEN 4 ELSE 1)

\* out is msg with nothing changed but the tokens that resolve: from
\* position p of out on, the tokens msg[i..] follow each other, each as it
\* was unless it resolves
RECURSIVE OnlyMentionsChanged(_, _, _, _, _, _, _)
OnlyMentionsChanged(out, p, msg, i, c, api, cacheOnly) ==
    IF i > Len(msg) THEN p = Len(out) + 1
    ELSE IF Resolves(msg[i], c, api, cacheOnly)
    THEN \E q \in p..(Len(out) + 1) :
            OnlyMentionsChanged(out, q, msg, i + 1, c, api, cacheOnly)
    ELSE /\ OccursAt(out, RenderTok(msg[i]), p)
         /\ OnlyMentionsChanged(out, p + Len(RenderTok(msg[i])), msg, i + 1,
                                c, api, cacheOnly)

\* C20: what ConvertUsersToRefs returns is the message with nothing changed
\* but the "name:" and "@name" tokens whose name resolves to an id that
\* passes the format check; when none does, it is the message
C20_OnlyMentionsAreRewritten ==
    (last.kind = "ConvertUsersToRefs" /\ ~last.panic)
    => /\ OnlyMentionsChanged(last.out, 1, last.msg, 1, last.c0, last.api,
                              last.cacheOnly)
       /\ (\A i \in 1..Len(last.msg) :
              ~Resolves(last.msg[i], last.c0, last.api, last.cacheOnly))
           => last.out = RenderToks(last.msg, 1)


\* ------------------------------------------------------------------------
\* Properties of the counters (SpecCount)
\* ------------------------------------------------------------------------

\* The pattern router alone, with its heartbeat sweep, under events of
\* another network's broker
NextCount ==
    \/ (nIn < MaxInbound /\ \E ev \in InEvents : ExtBroadcast(ev))
    \/ Activate
    \/ \E t \in Threads : HandleEvent(t)
    \/ \E t \in Threads : HelperHandle(t)
    \/ \E t \in Threads : Handle(t)
    \/ \E t \in Threads : HandleEventActn(t)
    \/ \E t \in Threads : HandleEventEnd(t)
    \/ \E t \in Threads : BroadcastReturn(t)
    \/ \E k \in 1..Len(subs) : \E resp \in Responses : Submit(k, resp)
    \/ \E k \in 1..Len(subs) : SubmitPush(k)
    \/ Heartbeat

SpecCount == InitFull /\ [][NextCount]_vars

\* the sum of the values of counter f (1: received, 2: actioned) that the
\* first j heartbeats logged
RECURSIVE Reported(_, _)
Reported(j, f) == IF j = 0 THEN 0 ELSE hbLog[j][f] + Reported(j - 1, f)

\* C21: no increment of msgsRcvd or msgsActn is lost to a heartbeat: what
\* the heartbeats have logged so far plus what the counter holds is the
\* number of increments executed, and every heartbeat leaves both counters
\* at 0
C21_CountsSurviveHeartbeats ==
    /\ [](/\ Reported(Len(hbLog), 1) + msgsRcvd = incs.rcvd
          /\ Reported(Len(hbLog), 2) + msgsActn = incs.actn)
    /\ [][hbLog' # hbLog => (msgsRcvd' = 0 /\ msgsActn' = 0)]_vars

\* C21 witness: a heartbeat has fallen between the msgsRcvd++ and the
\* msgsActn++ of one HandleEvent call, and both increments are accounted
\* for
C21_Witness ==
    /\ hbLog = <<<<1, 0>>>>
    /\ msgsRcvd = 0
    /\ msgsActn = 1
    /\ incs = [rcvd |-> 1, actn |-> 1]

\* C22: the router never holds more actioned than received events, and no
\* heartbeat logs more actioned than received
C22_ActionedWithinReceived ==
    /\ msgsActn <= msgsRcvd
    /\ \A j \in 1..Len(hbLog) : hbLog[j][2] <= hbLog[j][1]

\* C22 as amended: under any interleaving of HandleEvent and Heartbeat calls
\* the actioned counts the heartbeats have reported so far plus msgsActn
\* are no greater than the received counts reported so far plus msgsRcvd
C22_ActionedTotalWithinReceived ==
    Reported(Len(hbLog), 2) + msgsActn <= Reported(Len(hbLog), 1) + msgsRcvd

\* a heartbeat has run between the two increments of a HandleEvent call
\* whose event matched: the router holds more actioned than received
C22_Witness ==
    /\ Len(hbLog) > 0
    /\ msgsActn > msgsRcvd

\* ------------------------------------------------------------------------
\* Properties of the router's own events (Spec)
\* ------------------------------------------------------------------------

\* the event is one the pattern router manufactured and Activate broadcast
FromRouter(ev) == ev.IsCmdOutput /\ ev.Origin = PRBName

\* C23: a feedback event of the pattern router (Origin the router,
\* IsCmdOutput true) that Broadcast delivers back to the router's HandleEvent
\* triggers nothing: no pattern fires on it, no goroutine makes an external
\* call for it and no further feedback event is pushed because of it
C23_OwnEventsTriggerNothing ==
    /\ \A t \in Threads :
          (th[t].pc \in {"try", "actn"} /\ FromRouter(th[t].ev))
          => th[t].fired = <<>>
    /\ \A k \in 1..Len(subs) : ~FromRouter(subs[k].originEvt)
    /\ \A j \in 1..Len(trigLog) : ~FromRouter(trigLog[j])

\* ------------------------------------------------------------------------
\* Properties of the Slack broker's own events (SpecStart)
\* ------------------------------------------------------------------------

\* C24: SlackBroker.HandleEvent posts no event whose Origin is the Slack
\* broker: a message the broker read from Slack and broadcast is not sent
\* back to Slack when the dispatcher hands it to every registered broker
C24_OwnEventsAreNotPostedBack ==
    (slLast.n > 0 /\ slLast.ev.Origin = SlackName) => slLast.posts = 0

\* ------------------------------------------------------------------------
\* ChunkSplit (smug/pr.go 315-334): inputs, action and properties
\* ------------------------------------------------------------------------

\* a byte that begins no UTF-8 sequence, and the rune U+FFFD that range
\* yields for it
BadByte == "xFF"
RuneError == "uFFFD"
\* the bodies split: every string of at most MaxBody units, a unit being
\* the encoding of one character or one invalid byte
Bodies == UNION {[1..n -> {"a", "b", BadByte}] : n \in 0..MaxBody}

\* lines 317-321: the runes that "for _, char := range body" appends
ToRunes(body) ==
    [i \in 1..Len(body) |-> IF body[i] = BadByte THEN RuneError ELSE body[i]]

\* the array behind charSlice after the appends, of capacity cp: the runes
\* and then cells that hold the zero rune
Backing(runes, cp) ==
    [i \in 1..cp |-> IF i <= Len(runes) THEN runes[i] ELSE "u0000"]

\* lines 323-332: the loop on charSlice, given as its backing array arr from
\* the slice's first cell on and its length n. A slice expression panics
\* when its bounds are out of range: [:limit] is checked against the
\* capacity, [limit:] against the length
RECURSIVE ChunkLoop(_, _, _, _)
ChunkLoop(arr, n, limit, result) ==
    IF n < 1
    THEN [panic |-> FALSE, result |-> result]
    ELSE IF ~InRange(arr, 0, limit)
    THEN [panic |-> TRUE, result |-> result]
    ELSE LET res == Append(result, Slice(arr, 0, limit))
         IN  IF limit > n
             THEN [panic |-> TRUE, result |-> res]
             ELSE LET rest == Slice(arr, limit, Len(arr))
                      m == n - limit
                  IN  ChunkLoop(rest, m, IF m < limit THEN m ELSE limit, res)

\* ChunkSplit(body, limit), with cp the capacity append gave charSlice
ChunkSplit(body, limit, cp) ==
    LET runes == ToRunes(body)
    IN  ChunkLoop(Backing(runes, cp), Len(runes), limit, <<>>)

\* one call of ChunkSplit; a nil slice has capacity 0
ChunkSplitCall(body, limit, spare) ==
    /\ \E cp \in {IF body = <<>> THEN 0 ELSE Len(body) + spare} :
       \E r \in {ChunkSplit(body, limit, cp)} :
          last' = [kind |-> "ChunkSplit", body |-> body, limit |-> limit,
                   cap |-> cp, panic |-> r.panic, result |-> r.result]
    /\ UNCHANGED <<fresh>>
    /\ UNCHANGED <<prVars, slVars>>

NextChunks ==
    \E body \in Bodies : \E limit \in 1..MaxLimit : \E spare \in 0..MaxSpare :
        ChunkSplitCall(body, limit, spare)

SpecChunks == InitSlackOnly /\ [][NextChunks]_vars

\* the chunks put end to end
RECURSIVE JoinChunks(_)
JoinChunks(chunks) ==
    IF chunks = <<>> THEN <<>> ELSE Head(chunks) \o JoinChunks(Tail(chunks))

\* C25: for every body, the empty one and those shorter than limit
\* included, and every limit of 1 or more, ChunkSplit returns without a
\* runtime error, its chunks put end to end are the body, no chunk has more
\* than limit runes, and every chunk but the last has exactly limit runes
C25_ChunksRebuildTheBody ==
    last.kind = "ChunkSplit"
    => /\ ~last.panic
       /\ JoinChunks(last.result) = last.body
       /\ \A i \in 1..Len(last.result) :
             /\ Len(last.result[i]) <= last.limit
             /\ i < Len(last.result) => Len(last.result[i]) = last.limit

============================================================================
